---- MODULE Spec2Model ----
(***************************************************************************)
(* The risk management agent's signal-generation pipeline: one run of      *)
(* RiskManagementAgent.run over one RiskAnalysisInput.                     *)
(*                                                                         *)
(*   split markets -> parallel batch analysis (semaphore, retry, fallback) *)
(*   -> reconciliation (retry, fallback) -> RiskAnalysisOutput             *)
(*                                                                         *)
(* The LLM is the only source of nondeterminism besides scheduling: each   *)
(* call either returns a well-formed judgment (drawn from a small table),  *)
(* or fails (timeout, transport error, malformed text).  Time is           *)
(* abstracted: the whole-pipeline deadline may expire at any suspension    *)
(* point of the run.                                                       *)
(***************************************************************************)
EXTENDS Integers, Sequences, FiniteSets, TLC

VARIABLES
    input,       \* the RiskAnalysisInput of this run
    config,      \* the RiskAgentConfig of this run (frozen)
    state,       \* the orchestrator's position in the pipeline
    batches,     \* the batches made by split, in order
    bstate,      \* per batch: queued / calling / backoff / done
    attempts,    \* per batch: analyze_batch calls made so far
    results,     \* per batch: the result slot
    completion,  \* batch indices in the order their slots were filled
    recon,       \* the reconciliation step: phase, calls made, the signals
                 \* handed in, the signal list the last call sent back
    output,      \* the RiskAnalysisOutput, once assembled
    outcome,     \* how the run ended, as the caller sees it
    late,        \* calls cancelled in flight whose response is yet to arrive
    clock,       \* elapsed time: of the run, and per batch of the current
                 \* call, of all its calls so far, and of the current wait
    widget,      \* the event-explorer widget: isPending, props, what is
                 \* rendered, the clicks made and the tool calls issued
    parse        \* an EventCard's outcomes and outcomePrices, and the
                 \* result of parseOutcomes on them

vars == <<input, config, state, batches, bstate, attempts, results,
          completion, recon, output, outcome, late, clock, widget, parse>>

\* The risk agent's part of the state.
agentVars == <<input, config, state, batches, bstate, attempts, results,
               completion, recon, output, outcome, late, clock>>

(***************************************************************************)
(* Bounds of the model.                                                    *)
(***************************************************************************)
MaxMarkets == 3
MaxBatchSize == 2
MaxConcurrent == 2
MaxRetries == 1
MaxSplitMarkets == 22
MaxSplitBatch == 6

\* Batches of a run whose time is followed tick by tick.
MaxTimedBatches == 1

\* A whole-pipeline timeout override under which a batch's attempts all fit.
LongTotalTimeout == 138

\* RiskAgentConfig defaults.
PerBatchTimeout == 45

TotalTimeout == 90

DefaultMaxRetries == 2

RetryDelay == 1

(***************************************************************************)
(* Sequence helpers.                                                       *)
(***************************************************************************)
Min(a, b) == IF a <= b THEN a ELSE b

CeilDiv(a, b) == (a + b - 1) \div b

RECURSIVE Flatten(_)
Flatten(ss) == IF ss = <<>> THEN <<>> ELSE Head(ss) \o Flatten(Tail(ss))

Range(s) == {s[i] : i \in 1..Len(s)}

(***************************************************************************)
(* Schemas.                                                                *)
(***************************************************************************)
TradingSignal == {"buy", "sell", "hold"}

ConfidenceLevel == {"high", "medium", "low"}

NoPrice == -1

\* Market: id, optional current_price (in hundredths; NoPrice when absent).
Market(id, price) == [id |-> id, current_price |-> price]

MarketSignal(id, sig, conf, why) ==
    [market_id |-> id, signal |-> sig, confidence |-> conf, rationale |-> why]

DISCLAIMER == "not financial advice"

NoOutput == [event_title |-> "", signals |-> <<>>, overall_analysis |-> <<>>,
             disclaimer |-> ""]

\* Mutant: the output is built without the disclaimer.
RiskAnalysisOutputBare(title, sigs, analysis) ==
    [event_title |-> title, signals |-> sigs, overall_analysis |-> analysis,
     disclaimer |-> ""]

RiskAnalysisOutput(title, sigs, analysis) ==
    [event_title |-> title, signals |-> sigs, overall_analysis |-> analysis,
     disclaimer |-> DISCLAIMER]

(***************************************************************************)
(* Input validation (the Pydantic input model).                            *)
(***************************************************************************)
KeyFindingsValid(inp) == inp.key_findings >= 1

PriceValid(m) ==
    m.current_price = NoPrice \/ (m.current_price >= 0 /\ m.current_price <= 100)

SentimentRating ==
    {"very_bearish", "bearish", "neutral", "bullish", "very_bullish"}

SentimentValid(inp) == inp.sentiment \in SentimentRating

\* The input model sets no minimum on markets: an empty list is accepted.
ValidInput(inp) ==
    /\ KeyFindingsValid(inp)
    /\ SentimentValid(inp)
    /\ \A i \in 1..Len(inp.markets) : PriceValid(inp.markets[i])

(***************************************************************************)
(* Batcher: markets[k*b .. (k+1)*b) for k = 0, 1, ...                      *)
(***************************************************************************)
\* Mutant: only the full batches are formed, the remainder is dropped.
split_full_batches_only(markets, batch_size) ==
    [k \in 1..(Len(markets) \div batch_size) |->
        SubSeq(markets, (k - 1) * batch_size + 1, k * batch_size)]

split(markets, batch_size) ==
    [k \in 1..CeilDiv(Len(markets), batch_size) |->
        SubSeq(markets, (k - 1) * batch_size + 1,
               Min(k * batch_size, Len(markets)))]

(***************************************************************************)
(* Safe enum parsing: unknown -> HOLD / LOW.                               *)
(***************************************************************************)
\* Mutant: the raw signal value is passed through unparsed.
parse_signal_unchecked(raw) == raw

parse_signal(raw) == IF raw \in TradingSignal THEN raw ELSE "hold"

parse_confidence(raw) == IF raw \in ConfidenceLevel THEN raw ELSE "low"

(***************************************************************************)
(* Fallback Signal Builder.                                                *)
(***************************************************************************)
\* Mutant: the fallback keeps HOLD but reports medium confidence.
build_fallback_medium(batch) ==
    [j \in 1..Len(batch) |->
        MarketSignal(batch[j].id, "hold", "medium", "analysis unavailable")]

\* Mutant: the fallback walks the batch from its end.
build_fallback_backwards(batch) ==
    [j \in 1..Len(batch) |->
        MarketSignal(batch[Len(batch) + 1 - j].id, "hold", "low",
                     "analysis unavailable")]

build_fallback_batch(batch) ==
    [j \in 1..Len(batch) |->
        MarketSignal(batch[j].id, "hold", "low", "analysis unavailable")]

(***************************************************************************)
(* The judgment capability's well-formed answers.  Judgment k gives the    *)
(* market with id m the (k + m)-th entry of a fixed table, so that the     *)
(* signals of one batch differ from each other and from batch to batch.    *)
(* The last entry carries enum values the schema does not know.            *)
(***************************************************************************)
RawJudgments ==
    << <<"buy", "high">>, <<"sell", "medium">>, <<"hold", "low">>,
       <<"strong_buy", "certain">> >>

RawJudgment(k, id) == RawJudgments[((k + id) % Len(RawJudgments)) + 1]

Judgments == {0, 1}

\* analyze_batch on a well-formed response: parsed JSON -> signals.
analyze_batch(batch, k) ==
    [j \in 1..Len(batch) |->
        MarketSignal(batch[j].id,
                     parse_signal(RawJudgment(k, batch[j].id)[1]),
                     parse_confidence(RawJudgment(k, batch[j].id)[2]),
                     "llm")]

AnalysisFailures == {"timeout", "transport", "malformed"}

\* The response text: the JSON body, bare or inside a markdown fence.
Fence == <<"fence", 0>>

ResponseText(k, fenced) ==
    IF fenced THEN <<Fence, <<"json", k>>, Fence>> ELSE << <<"json", k>> >>

\* Mutant: the text is parsed as it arrived, fence and all.
strip_nothing(text) == text

\* Markdown fence stripping for JSON parsing.
strip_fence(text) ==
    IF Len(text) >= 2 /\ Head(text) = Fence /\ text[Len(text)] = Fence
    THEN SubSeq(text, 2, Len(text) - 1)
    ELSE text

\* Texts that are not one JSON body: empty, prose, an unterminated fence,
\* fenced prose, two bodies, an empty fence.
MalformedTexts ==
    { <<>>,
      << <<"prose", 0>> >>,
      <<Fence, <<"json", 0>> >>,
      <<Fence, <<"prose", 0>>, Fence>>,
      << <<"json", 0>>, <<"json", 1>> >>,
      <<Fence, Fence>> }

WellFormedTexts == {ResponseText(k, fenced) : k \in Judgments, fenced \in BOOLEAN}

\* What one outbound call can come back with.
Responses ==
    {[kind |-> why, text |-> <<>>] : why \in {"timeout", "transport"}}
        \cup {[kind |-> "text", text |-> t] :
                  t \in WellFormedTexts \cup MalformedTexts}

AnalysisFailed == [ok |-> FALSE, signals |-> <<>>]

BatchResult(sigs) == [ok |-> TRUE, signals |-> sigs]

\* Strict parse of the stripped text: exactly one JSON body.
ParsesAsJson(body) ==
    Len(body) = 1 /\ body[1][1] = "json" /\ body[1][2] \in Judgments

\* analyze_batch on whatever the call came back with.
analyze_batch_response(batch, resp) ==
    IF resp.kind # "text"
    THEN AnalysisFailed
    ELSE LET body == strip_fence(resp.text)
         IN  IF ParsesAsJson(body)
             THEN BatchResult(analyze_batch(batch, body[1][2]))
             ELSE AnalysisFailed

(***************************************************************************)
(* Result slots.                                                           *)
(***************************************************************************)
EmptySlot == [source |-> "none", signals |-> <<>>]

Slot(src, sigs) == [source |-> src, signals |-> sigs]

NumBatches == Len(batches)

BatchIds == 1..NumBatches

\* Batches holding the semaphore: inside analyze_batch_with_retry.
InFlight == Cardinality({i \in BatchIds : bstate[i] \in {"calling", "backoff"}})

\* Mutant: the semaphore is never consulted.
SlotAlwaysFree == TRUE

SlotFree == InFlight < config.max_concurrent_batches

MaxAttempts == 1 + config.max_retries

\* Mutant: results are collected as the batches complete.
GatheredAsCompleted ==
    Flatten([k \in 1..Len(completion) |-> results[completion[k]].signals])

\* Mutant: a batch that fell back contributes nothing.
GatheredSuccessesOnly ==
    Flatten([i \in BatchIds |->
        IF results[i].source = "analyzer" THEN results[i].signals ELSE <<>>])

\* asyncio.gather: results in the order of the batches, not of completion.
GatheredSignals == Flatten([i \in BatchIds |-> results[i].signals])

(***************************************************************************)
(* Initial states: a run has been requested, nothing has happened yet.     *)
(***************************************************************************)
\* Market ids run against positions, so that ids and indices are told apart.
InputMarkets(n, price) ==
    [i \in 1..n |-> Market(n + 1 - i, IF i = 1 THEN price ELSE NoPrice)]

\* main_event.title: one title per event, told apart by the market count.
EventTitle(n) == <<"event with markets", n>>

IdleRecon ==
    [phase |-> "idle", attempts |-> 0, signals |-> <<>>,
     answered |-> FALSE, answer |-> <<>>]

\* The frozen configuration; the timeouts other than the whole-pipeline one
\* and the retry delay keep their defaults.
RiskAgentConfig(b, c, r, total) ==
    [batch_size |-> b, max_concurrent_batches |-> c, max_retries |-> r,
     per_batch_timeout |-> PerBatchTimeout, total_timeout |-> total,
     retry_delay |-> RetryDelay]

\* No widget is mounted and no card is drawn while the agent runs.
NoWidget == [isPending |-> TRUE, results |-> <<>>, view |-> <<>>,
             clicks |-> <<>>, calls |-> <<>>]

NoParse == [outcomes |-> <<>>, prices |-> <<>>, called |-> FALSE,
            parsed |-> <<>>]

\* The clock of a run whose time is not followed.
NoClock == [now |-> 0, call |-> <<>>, spent |-> <<>>, wait |-> <<>>]

Init ==
    /\ \E n \in 0..MaxMarkets, kf \in 0..1, price \in {50, 150},
          s \in {"neutral", "euphoric"} :
          input = [title |-> EventTitle(n), key_findings |-> kf,
                   sentiment |-> s, markets |-> InputMarkets(n, price)]
    /\ \E b \in 1..MaxBatchSize, c \in 1..MaxConcurrent, r \in 0..MaxRetries :
          config = RiskAgentConfig(b, c, r, TotalTimeout)
    /\ state = "Received"
    /\ batches = <<>>
    /\ bstate = <<>>
    /\ attempts = <<>>
    /\ results = <<>>
    /\ completion = <<>>
    /\ recon = IdleRecon
    /\ output = NoOutput
    /\ outcome = "running"
    /\ late = {}
    /\ clock = NoClock
    /\ widget = NoWidget
    /\ parse = NoParse

(***************************************************************************)
(* Orchestrator: validation and batching.                                  *)
(***************************************************************************)
RejectInvalid ==
    /\ state = "Received"
    /\ ~ValidInput(input)
    /\ state' = "Failed"
    /\ outcome' = "InvalidInput"
    /\ UNCHANGED <<widget, parse, late, input, config, batches, bstate, attempts, results,
                   completion, recon, output>>

Accept ==
    /\ state = "Received"
    /\ ValidInput(input)
    /\ state' = "Batching"
    /\ UNCHANGED <<widget, parse, late, input, config, batches, bstate, attempts, results,
                   completion, recon, output, outcome>>

Batching ==
    /\ state = "Batching"
    /\ batches' = split(input.markets, config.batch_size)
    /\ bstate' = [i \in 1..Len(batches') |-> "queued"]
    /\ attempts' = [i \in 1..Len(batches') |-> 0]
    /\ results' = [i \in 1..Len(batches') |-> EmptySlot]
    /\ state' = "Analyzing"
    /\ UNCHANGED <<widget, parse, late, input, config, completion, recon, output, outcome>>

(***************************************************************************)
(* Batch Scheduler: one task per batch, gathered, behind a semaphore.      *)
(***************************************************************************)
\* The task of batch i acquires the semaphore (tasks wait for it in batch
\* order) and analyze_batch_with_retry makes its first call.
Admit(i) ==
    /\ state = "Analyzing"
    /\ bstate[i] = "queued"
    /\ \A j \in 1..(i - 1) : bstate[j] # "queued"
    /\ SlotFree
    /\ bstate' = [bstate EXCEPT ![i] = "calling"]
    /\ attempts' = [attempts EXCEPT ![i] = @ + 1]
    /\ UNCHANGED <<widget, parse, late, input, config, state, batches, results, completion,
                   recon, output, outcome>>

\* analyze_batch_with_retry: the next call, after the retry delay.
RetryAnalyzer(i) ==
    /\ state = "Analyzing"
    /\ bstate[i] = "backoff"
    /\ bstate' = [bstate EXCEPT ![i] = "calling"]
    /\ attempts' = [attempts EXCEPT ![i] = @ + 1]
    /\ UNCHANGED <<widget, parse, late, input, config, state, batches, results, completion,
                   recon, output, outcome>>

\* Mutant: every task writes to the slot of the last batch.
AnalyzerSucceedsLastSlot(i) ==
    /\ state = "Analyzing"
    /\ bstate[i] = "calling"
    /\ \E k \in Judgments :
          results' = [results EXCEPT
              ![NumBatches] = Slot("analyzer", analyze_batch(batches[i], k))]
    /\ bstate' = [bstate EXCEPT ![i] = "done"]
    /\ completion' = Append(completion, i)
    /\ UNCHANGED <<widget, parse, late, input, config, state, batches, attempts, recon, output,
                   outcome>>

\* The call returns well-formed JSON (bare or inside a markdown fence).
AnalyzerSucceeds(i) ==
    /\ state = "Analyzing"
    /\ bstate[i] = "calling"
    /\ \E resp \in Responses :
          LET res == analyze_batch_response(batches[i], resp)
          IN  /\ res.ok
              /\ results' = [results EXCEPT
                     ![i] = Slot("analyzer", res.signals)]
    /\ bstate' = [bstate EXCEPT ![i] = "done"]
    /\ completion' = Append(completion, i)
    /\ UNCHANGED <<widget, parse, late, input, config, state, batches, attempts, recon, output,
                   outcome>>

\* Mutant: once the attempts are used up the failure is raised to the caller.
AnalyzerFailsPropagates(i) ==
    /\ state = "Analyzing"
    /\ bstate[i] = "calling"
    /\ \E why \in AnalysisFailures :
          IF attempts[i] < MaxAttempts
          THEN /\ bstate' = [bstate EXCEPT ![i] = "backoff"]
               /\ UNCHANGED <<state, outcome>>
          ELSE /\ bstate' = [bstate EXCEPT ![i] = "done"]
               /\ state' = "Failed"
               /\ outcome' = "AnalysisFailed"
    /\ UNCHANGED <<widget, parse, late, input, config, batches, attempts, results, completion,
                   recon, output>>

\* Mutant: one batch out of attempts puts every batch on the fallback.
AnalyzerFailsDegradesAll(i) ==
    /\ state = "Analyzing"
    /\ bstate[i] = "calling"
    /\ \E why \in AnalysisFailures :
          IF attempts[i] < MaxAttempts
          THEN /\ bstate' = [bstate EXCEPT ![i] = "backoff"]
               /\ UNCHANGED <<results, completion>>
          ELSE /\ bstate' = [j \in BatchIds |-> "done"]
               /\ results' = [j \in BatchIds |->
                     Slot("fallback", build_fallback_batch(batches[j]))]
               /\ completion' = Append(completion, i)
    /\ UNCHANGED <<widget, parse, late, input, config, state, batches, attempts, recon, output,
                   outcome>>

\* The call raises AnalysisFailed: retry while attempts remain, else fallback.
AnalyzerFails(i) ==
    /\ state = "Analyzing"
    /\ bstate[i] = "calling"
    /\ \E resp \in Responses :
          /\ ~analyze_batch_response(batches[i], resp).ok
          /\ IF attempts[i] < MaxAttempts
             THEN /\ bstate' = [bstate EXCEPT ![i] = "backoff"]
                  /\ UNCHANGED <<results, completion>>
             ELSE /\ bstate' = [bstate EXCEPT ![i] = "done"]
                  /\ results' = [results EXCEPT
                        ![i] = Slot("fallback", build_fallback_batch(batches[i]))]
                  /\ completion' = Append(completion, i)
    /\ UNCHANGED <<widget, parse, late, input, config, state, batches, attempts, recon, output,
                   outcome>>

(***************************************************************************)
(* Reconciler.                                                             *)
(***************************************************************************)
SignalCount(sigs, s) == Cardinality({i \in 1..Len(sigs) : sigs[i].signal = s})

\* Mutant: the fallback leaves the analysis empty.
NoAnalysis(sigs) == <<>>

\* The concatenated analysis of the fallback: a preamble and signal counts.
FallbackAnalysis(sigs) ==
    <<"reconciliation unavailable", SignalCount(sigs, "buy"),
      SignalCount(sigs, "sell"), SignalCount(sigs, "hold")>>

LlmAnalysis == <<"llm summary">>

FlipSignal(s) == IF s = "buy" THEN "sell" ELSE IF s = "sell" THEN "hold" ELSE "buy"

\* A reconciliation answer that repairs the first market's signal.
Adjusted(sigs) ==
    [j \in 1..Len(sigs) |->
        IF j = 1
        THEN MarketSignal(sigs[j].market_id, FlipSignal(sigs[j].signal),
                          "medium", "adjusted")
        ELSE sigs[j]]

Reversed(sigs) == [j \in 1..Len(sigs) |-> sigs[Len(sigs) + 1 - j]]

\* A reconciliation answer whose first entry carries unknown enum values.
UnknownEnums(sigs) ==
    [j \in 1..Len(sigs) |->
        IF j = 1
        THEN MarketSignal(sigs[j].market_id, "strong_sell", "certain",
                          "adjusted")
        ELSE sigs[j]]

\* Safe enum parsing of a list of raw signals.
parse_signals(raw) ==
    [j \in 1..Len(raw) |->
        MarketSignal(raw[j].market_id, parse_signal(raw[j].signal),
                     parse_confidence(raw[j].confidence), raw[j].rationale)]

ReconAnswers ==
    {"unchanged", "adjusted", "partial", "reordered", "duplicated", "extra",
     "unknown_enums"}

\* The signal list the judgment capability sends back.
ReconAnswer(kind, sigs) ==
    CASE kind = "unchanged"  -> sigs
      [] kind = "adjusted"   -> Adjusted(sigs)
      [] kind = "partial"    -> SubSeq(sigs, 1, Len(sigs) - 1)
      [] kind = "reordered"  -> Reversed(sigs)
      [] kind = "duplicated" -> IF sigs = <<>> THEN sigs
                                ELSE Append(sigs, sigs[1])
      [] kind = "extra"      -> Append(sigs, MarketSignal(0, "buy", "high", "llm"))
      [] kind = "unknown_enums" -> UnknownEnums(sigs)

MarketIds(sigs) == [j \in 1..Len(sigs) |-> sigs[j].market_id]

\* Mutant: only the number of signals is compared.
ConformsByLength(answer, sigs) == Len(answer) = Len(sigs)

\* One entry per input signal, in the same order.
Conforms(answer, sigs) == MarketIds(answer) = MarketIds(sigs)

\* Bound on the calls one run of reconcile_with_retry makes.
MaxReconAttempts == 2

\* Mutant: the reconciler is started as soon as one batch has a result.
StartReconcileEarly ==
    /\ state = "Analyzing"
    /\ \E i \in BatchIds : bstate[i] = "done"
    /\ state' = "Reconciling"
    /\ recon' = [phase |-> "ready", attempts |-> 0,
                 signals |-> GatheredSignals,
                 answered |-> FALSE, answer |-> <<>>]
    /\ UNCHANGED <<widget, parse, late, input, config, batches, bstate, attempts, results,
                   completion, output, outcome>>

\* asyncio.gather has returned: hand every signal to the reconciler.
StartReconcile ==
    /\ state = "Analyzing"
    /\ \A i \in BatchIds : bstate[i] = "done"
    /\ state' = "Reconciling"
    /\ recon' = [phase |-> "ready", attempts |-> 0,
                 signals |-> GatheredSignals,
                 answered |-> FALSE, answer |-> <<>>]
    /\ UNCHANGED <<widget, parse, late, input, config, batches, bstate, attempts, results,
                   completion, output, outcome>>

CallReconciler ==
    /\ state = "Reconciling"
    /\ recon.phase \in {"ready", "backoff"}
    /\ recon' = [recon EXCEPT !.phase = "calling", !.attempts = @ + 1]
    /\ UNCHANGED <<widget, parse, late, input, config, state, batches, bstate, attempts, results,
                   completion, output, outcome>>

\* reconcile_signals returns a signal list and an analysis, and the list has
\* one entry per market in order: it becomes the output.
ReconcilerSucceeds ==
    /\ state = "Reconciling"
    /\ recon.phase = "calling"
    /\ \E kind \in ReconAnswers :
          /\ Conforms(ReconAnswer(kind, recon.signals), recon.signals)
          /\ recon' = [recon EXCEPT !.phase = "done", !.answered = TRUE,
                           !.answer = ReconAnswer(kind, recon.signals)]
          /\ output' = RiskAnalysisOutput(input.title,
                           parse_signals(ReconAnswer(kind, recon.signals)),
                           LlmAnalysis)
    /\ state' = "Done"
    /\ outcome' = "ok"
    /\ UNCHANGED <<widget, parse, late, input, config, batches, bstate, attempts, results,
                   completion>>

\* reconcile_signals returns a signal list that is not one entry per market
\* in order.  The check made before returning finds it and the whole
\* reconciliation counts as failed: the batch signals are returned as they
\* are, with no further call.
ReconcilerRejected ==
    /\ state = "Reconciling"
    /\ recon.phase = "calling"
    /\ \E kind \in ReconAnswers :
          /\ ~Conforms(ReconAnswer(kind, recon.signals), recon.signals)
          /\ recon' = [recon EXCEPT !.phase = "fallback", !.answered = TRUE,
                           !.answer = ReconAnswer(kind, recon.signals)]
    /\ output' = RiskAnalysisOutput(input.title,
                     recon.signals, FallbackAnalysis(recon.signals))
    /\ state' = "Done"
    /\ outcome' = "ok"
    /\ UNCHANGED <<widget, parse, late, input, config, batches, bstate, attempts, results,
                   completion>>

\* A call of reconcile_signals fails: it times out or its text does not
\* parse.  reconcile_with_retry either makes another call or gives up, and
\* then the batch signals are returned as they are.  The number of calls the
\* wrapper makes is left open: every number from 1 to MaxReconAttempts
\* happens.
ReconcilerFails ==
    /\ state = "Reconciling"
    /\ recon.phase = "calling"
    /\ \/ /\ recon.attempts < MaxReconAttempts
          /\ recon' = [recon EXCEPT !.phase = "backoff"]
          /\ UNCHANGED <<state, output, outcome>>
       \/ /\ recon' = [recon EXCEPT !.phase = "fallback"]
          /\ output' = RiskAnalysisOutput(input.title,
                 recon.signals, FallbackAnalysis(recon.signals))
          /\ state' = "Done"
          /\ outcome' = "ok"
    /\ UNCHANGED <<widget, parse, late, input, config, batches, bstate, attempts, results,
                   completion>>

(***************************************************************************)
(* Whole-pipeline deadline.                                                *)
(***************************************************************************)
\* Mutant: on expiry every slot is refilled by the fallback builder.
SlotAtDeadlineAllFallback(i) ==
    Slot("cancelled", build_fallback_batch(batches[i]))

\* The slot of batch i once the deadline has cancelled what was outstanding.
SlotAtDeadline(i) ==
    IF bstate[i] = "done" THEN results[i]
    ELSE Slot("cancelled", build_fallback_batch(batches[i]))

\* The reconciliation call, among the calls in flight.
ReconCall == 0

\* The outbound calls awaiting a response.
InFlightCalls ==
    {i \in BatchIds : bstate[i] = "calling"}
        \cup (IF state = "Reconciling" /\ recon.phase = "calling"
              THEN {ReconCall} ELSE {})

\* Mutant: the timeout wrapper raises instead of assembling an output.
DeadlineExpiresRaises ==
    /\ \/ state = "Analyzing" /\ \E i \in BatchIds : bstate[i] # "done"
       \/ state = "Reconciling"
    /\ recon' = [recon EXCEPT !.phase = IF state = "Analyzing" THEN "skipped"
                                         ELSE "cancelled"]
    /\ state' = "Failed"
    /\ outcome' = "PipelineDeadlineExceeded"
    /\ UNCHANGED <<widget, parse, late, input, config, batches, bstate, attempts, results,
                   completion, output>>

\* total_timeout elapses while the run is suspended: in gather, with a batch
\* still outstanding, or in the reconciliation call.
DeadlineExpires ==
    /\ \/ state = "Analyzing" /\ \E i \in BatchIds : bstate[i] # "done"
       \/ state = "Reconciling"
    /\ results' = [i \in BatchIds |-> SlotAtDeadline(i)]
    /\ bstate' = [i \in BatchIds |-> "done"]
    /\ completion' = completion
    /\ recon' = [recon EXCEPT !.phase = IF state = "Analyzing" THEN "skipped"
                                         ELSE "cancelled"]
    /\ LET sigs == Flatten([i \in BatchIds |-> SlotAtDeadline(i).signals])
       IN  output' = RiskAnalysisOutput(input.title, sigs, FallbackAnalysis(sigs))
    /\ state' = "Done"
    /\ outcome' = "ok"
    /\ late' = InFlightCalls
    /\ UNCHANGED <<widget, parse, input, config, batches, attempts>>

\* Mutant: the answer of a cancelled call is written into the output.
LateResponseApplied(c) ==
    /\ state = "Done"
    /\ c \in late
    /\ late' = late \ {c}
    /\ output' = [output EXCEPT !.signals = Adjusted(@)]
    /\ UNCHANGED <<widget, parse, input, config, state, batches, bstate, attempts, results,
                   completion, recon, outcome>>

\* The answer of a call that was cancelled at the deadline arrives after
\* the run has returned: nobody awaits it any more.
LateResponse(c) ==
    /\ state = "Done"
    /\ c \in late
    /\ late' = late \ {c}
    /\ UNCHANGED <<widget, parse, input, config, state, batches, bstate, attempts, results,
                   completion, recon, output, outcome>>

\* Every interleaving of the steps; time is left out, so the deadline may
\* expire wherever the run is suspended.
Next ==
    \/ RejectInvalid /\ UNCHANGED clock
    \/ Accept /\ UNCHANGED clock
    \/ Batching /\ UNCHANGED clock
    \/ \E i \in BatchIds : Admit(i) /\ UNCHANGED clock
    \/ \E i \in BatchIds : RetryAnalyzer(i) /\ UNCHANGED clock
    \/ \E i \in BatchIds : AnalyzerSucceeds(i) /\ UNCHANGED clock
    \/ \E i \in BatchIds : AnalyzerFails(i) /\ UNCHANGED clock
    \/ StartReconcile /\ UNCHANGED clock
    \/ CallReconciler /\ UNCHANGED clock
    \/ ReconcilerSucceeds /\ UNCHANGED clock
    \/ ReconcilerRejected /\ UNCHANGED clock
    \/ ReconcilerFails /\ UNCHANGED clock
    \/ DeadlineExpires /\ UNCHANGED clock
    \/ \E c \in late : LateResponse(c) /\ UNCHANGED clock

Spec == Init /\ [][Next]_vars

(***************************************************************************)
(* The analysis stage with its time followed tick by tick: one market per  *)
(* batch, the default timeouts, retries and retry delay, and the           *)
(* whole-pipeline timeout either at its default or overridden.             *)
(***************************************************************************)
TimedInit ==
    /\ \E n \in 1..MaxTimedBatches :
          input = [title |-> EventTitle(n), key_findings |-> 1,
                   sentiment |-> "neutral", markets |-> InputMarkets(n, 50)]
    /\ \E c \in 1..MaxTimedBatches, total \in {TotalTimeout, LongTotalTimeout} :
          config = RiskAgentConfig(1, c, DefaultMaxRetries, total)
    /\ state = "Batching"
    /\ batches = <<>>
    /\ bstate = <<>>
    /\ attempts = <<>>
    /\ results = <<>>
    /\ completion = <<>>
    /\ recon = IdleRecon
    /\ output = NoOutput
    /\ outcome = "running"
    /\ late = {}
    /\ clock = NoClock
    /\ widget = NoWidget
    /\ parse = NoParse

\* The deadline clock starts with the run; no batch has been called yet.
StartClock(n) ==
    [now |-> 0, call |-> [i \in 1..n |-> 0], spent |-> [i \in 1..n |-> 0],
     wait |-> [i \in 1..n |-> 0]]

\* How long the judgment capability takes to answer or to fail: at once,
\* after a while, or not before the call times out.
CallDurations == {0, 7, 30, PerBatchTimeout}

\* A call ends: its time is added to what the batch has spent in calls.
CallEnded(i) ==
    [clock EXCEPT !.spent[i] = @ + clock.call[i], !.call[i] = 0, !.wait[i] = 0]

\* Mutant: time passes although a call has reached per_batch_timeout.
TickNoCallTimeout ==
    /\ state = "Analyzing"
    /\ \E i \in BatchIds : bstate[i] # "done"
    /\ clock.now < config.total_timeout
    /\ \A i \in BatchIds :
           /\ bstate[i] = "backoff" => clock.wait[i] < config.retry_delay
           /\ bstate[i] = "queued" => ~SlotFree
    /\ clock' = [clock EXCEPT
           !.now = @ + 1,
           !.call = [i \in BatchIds |->
                        IF bstate[i] = "calling" THEN @[i] + 1 ELSE @[i]],
           !.wait = [i \in BatchIds |->
                        IF bstate[i] = "backoff" THEN @[i] + 1 ELSE @[i]]]
    /\ UNCHANGED <<widget, parse, late, input, config, state, batches, bstate, attempts,
                   results, completion, recon, output, outcome>>

\* One unit of time passes while the run is suspended. It cannot pass once
\* a call has lasted per_batch_timeout (the call times out), a wait has
\* lasted retry_delay (the retry starts), a queued batch has a free slot,
\* or the run has lasted total_timeout (the deadline expires).
Tick ==
    /\ state = "Analyzing"
    /\ \E i \in BatchIds : bstate[i] # "done"
    /\ clock.now < config.total_timeout
    /\ \A i \in BatchIds :
           /\ bstate[i] = "calling" => clock.call[i] < config.per_batch_timeout
           /\ bstate[i] = "backoff" => clock.wait[i] < config.retry_delay
           /\ bstate[i] = "queued" => ~SlotFree
    /\ clock' = [clock EXCEPT
           !.now = @ + 1,
           !.call = [i \in BatchIds |->
                        IF bstate[i] = "calling" THEN @[i] + 1 ELSE @[i]],
           !.wait = [i \in BatchIds |->
                        IF bstate[i] = "backoff" THEN @[i] + 1 ELSE @[i]]]
    /\ UNCHANGED <<widget, parse, late, input, config, state, batches, bstate, attempts,
                   results, completion, recon, output, outcome>>

TimedNext ==
    \/ /\ Batching
       /\ clock' = StartClock(Len(split(input.markets, config.batch_size)))
    \/ \E i \in BatchIds : Admit(i) /\ UNCHANGED clock
    \/ \E i \in BatchIds :
          /\ RetryAnalyzer(i)
          /\ clock.wait[i] = config.retry_delay
          /\ UNCHANGED clock
    \/ \E i \in BatchIds :
          /\ clock.call[i] \in CallDurations
          /\ clock.call[i] < config.per_batch_timeout
          /\ AnalyzerSucceeds(i)
          /\ clock' = CallEnded(i)
    \/ \E i \in BatchIds :
          /\ clock.call[i] \in CallDurations
          /\ AnalyzerFails(i)
          /\ clock' = CallEnded(i)
    \/ Tick
    \/ /\ DeadlineExpires
       /\ clock.now = config.total_timeout
       /\ UNCHANGED clock
    \/ \E c \in late : LateResponse(c) /\ UNCHANGED clock

TimedSpec == TimedInit /\ [][TimedNext]_vars

(***************************************************************************)
(* The Batcher on its own: split applied to every market count and batch   *)
(* size up to MaxSplitMarkets and MaxSplitBatch.                           *)
(***************************************************************************)
SplitInit ==
    /\ \E n \in 1..MaxSplitMarkets :
          input = [title |-> EventTitle(n), key_findings |-> 1,
                   sentiment |-> "neutral", markets |-> InputMarkets(n, 50)]
    /\ \E b \in 1..MaxSplitBatch :
          config = RiskAgentConfig(b, 1, 0, TotalTimeout)
    /\ state = "Batching"
    /\ batches = <<>>
    /\ bstate = <<>>
    /\ attempts = <<>>
    /\ results = <<>>
    /\ completion = <<>>
    /\ recon = IdleRecon
    /\ output = NoOutput
    /\ outcome = "running"
    /\ late = {}
    /\ clock = NoClock
    /\ widget = NoWidget
    /\ parse = NoParse

SplitNext == Batching /\ UNCHANGED clock

SplitSpec == SplitInit /\ [][SplitNext]_vars

(***************************************************************************)
(* Properties.                                                             *)
(***************************************************************************)
InputIds == [j \in 1..Len(input.markets) |-> input.markets[j].id]

Occurrences(sigs, id) ==
    Cardinality({j \in 1..Len(sigs) : sigs[j].market_id = id})

\* One signal per input market, and no signal for anything else.
CoversMarkets(sigs) ==
    /\ Len(sigs) = Len(input.markets)
    /\ \A id \in Range(InputIds) : Occurrences(sigs, id) = 1
    /\ \A j \in 1..Len(sigs) : sigs[j].market_id \in Range(InputIds)

Sources == {results[i].source : i \in BatchIds}

\* C1: whatever the batch and reconciliation outcomes were, the returned
\* output has as many signals as the input has markets, with each input
\* market_id exactly once and no other id.
C1_SignalsCoverMarkets == state = "Done" => CoversMarkets(output.signals)

\* A three-market run that ended with one batch analysed, one fallen back
\* and the reconciliation fallen back too.
C1_Witness ==
    /\ state = "Done"
    /\ Len(input.markets) = 3
    /\ {"analyzer", "fallback"} \subseteq Sources
    /\ recon.phase = "fallback"
    /\ CoversMarkets(output.signals)

\* C2: split makes ceil(n/b) batches, each of 1..b markets, whose
\* concatenation in order is the input market list.
C2_SplitExhaustiveInOrder ==
    state \notin {"Received", "Batching", "Failed"} =>
        LET n == Len(input.markets)
            b == config.batch_size
        IN  /\ Len(batches) * b >= n
            /\ (Len(batches) - 1) * b < n
            /\ \A k \in 1..Len(batches) :
                   Len(batches[k]) >= 1 /\ Len(batches[k]) <= b
            /\ Flatten(batches) = input.markets

\* 22 markets at batch size 5 give batches of 5, 5, 5, 5 and 2.
C2_Witness ==
    /\ state = "Analyzing"
    /\ Len(input.markets) = 22
    /\ config.batch_size = 5
    /\ [k \in 1..Len(batches) |-> Len(batches[k])] = <<5, 5, 5, 5, 2>>
    /\ Flatten(batches) = input.markets


\* C3: analyze_batch_with_retry calls the analyzer at most 1 + max_retries
\* times for a batch, calls it again only after a failed call, keeps the
\* first successful result, and after the last failed call fills the slot
\* with the fallback instead of failing the run.
C3_RetryThenFallback ==
    /\ [](\A i \in BatchIds :
            /\ attempts[i] <= 1 + config.max_retries
            /\ results[i].source = "analyzer" =>
                   \E k \in Judgments :
                       results[i].signals = analyze_batch(batches[i], k)
            /\ results[i].source = "fallback" =>
                   /\ attempts[i] = 1 + config.max_retries
                   /\ results[i].signals = build_fallback_batch(batches[i])
            /\ bstate[i] = "done" => results[i].source # "none")
    /\ [](outcome # "AnalysisFailed")
    /\ [][\A i \in DOMAIN attempts :
            /\ attempts'[i] # attempts[i] =>
                   /\ attempts'[i] = attempts[i] + 1
                   /\ bstate'[i] = "calling"
                   /\ \/ attempts[i] = 0 /\ bstate[i] = "queued"
                      \/ attempts[i] > 0 /\ bstate[i] = "backoff"
            /\ results[i].source = "analyzer" =>
                   results'[i] = results[i] /\ attempts'[i] = attempts[i]]_vars

\* With one retry allowed: a batch that succeeded on its second call next to
\* a batch that fell back after two failed calls.
C3_Witness ==
    /\ config.max_retries = 1
    /\ \E i, j \in BatchIds :
          /\ results[i].source = "analyzer" /\ attempts[i] = 2
          /\ results[j].source = "fallback" /\ attempts[j] = 2
          /\ results[j].signals = build_fallback_batch(batches[j])

AllFrom(src) == BatchIds # {} /\ \A i \in BatchIds : results[i].source = src

\* The batch signals laid end to end in batch order.
BatchSignalsInOrder == Flatten([i \in BatchIds |-> results[i].signals])

\* C4: when the reconciliation has failed (reconcile_with_retry gave up
\* after timeouts or unparseable responses) and every batch call succeeded,
\* the output signals are the batch signals in market order, none changed,
\* dropped or moved, and overall_analysis is non-empty.
C4_ReconFallbackKeepsSignals ==
    (state = "Done" /\ AllFrom("analyzer") /\ recon.phase = "fallback") =>
        /\ output.signals = BatchSignalsInOrder
        /\ MarketIds(output.signals) = InputIds
        /\ output.overall_analysis # <<>>

\* Two analysed batches; the reconciliation call failed twice without an
\* answer and the run fell back.
C4_Witness ==
    /\ state = "Done"
    /\ NumBatches >= 2
    /\ AllFrom("analyzer")
    /\ recon.phase = "fallback"
    /\ recon.attempts = 2
    /\ ~recon.answered
    /\ output.signals = BatchSignalsInOrder

HoldLow(sig) == sig.signal = "hold" /\ sig.confidence = "low"

WentThroughReconciliation == recon.phase \in {"done", "fallback", "cancelled"}

\* C5 as stated: when every batch fell back after failing every attempt,
\* every output signal is hold / low.
C5_AsStated ==
    (state = "Done" /\ AllFrom("fallback")) =>
        /\ CoversMarkets(output.signals)
        /\ \A j \in 1..Len(output.signals) : HoldLow(output.signals[j])
        /\ WentThroughReconciliation
        /\ outcome = "ok"

\* C5 (amended): when every batch fell back after failing every attempt,
\* the output has a signal for every market, the run went through the
\* reconciliation step and ended without error, and every signal is
\* hold / low unless the reconciliation call succeeded and adjusted it.
C5_AllFallbackDegradesToHold ==
    (state = "Done" /\ AllFrom("fallback")) =>
        /\ CoversMarkets(output.signals)
        /\ \A j \in 1..Len(output.signals) :
               \/ HoldLow(output.signals[j])
               \/ recon.phase = "done" /\ output.signals[j].rationale = "adjusted"
        /\ recon.phase # "done" =>
               \A j \in 1..Len(output.signals) : HoldLow(output.signals[j])
        /\ WentThroughReconciliation
        /\ outcome = "ok"

\* Every batch fell back and so did the reconciliation: all hold / low.
C5_Witness ==
    /\ state = "Done"
    /\ NumBatches >= 2
    /\ AllFrom("fallback")
    /\ recon.phase = "fallback"
    /\ \A j \in 1..Len(output.signals) : HoldLow(output.signals[j])

\* C6: whatever order the batches finished in, the signals handed to the
\* reconciler hold batch i's result at batch i's place, and both they and
\* the returned signals follow the input market order.
C6_BatchOrderRestored ==
    /\ recon.phase \notin {"idle", "skipped"} =>
           /\ MarketIds(recon.signals) = InputIds
           /\ \A i \in BatchIds : \A j \in 1..Len(results[i].signals) :
                  recon.signals[(i - 1) * config.batch_size + j]
                      = results[i].signals[j]
    /\ state = "Done" => MarketIds(output.signals) = InputIds

\* A later batch finished before an earlier one and the run went on to a
\* successful reconciliation.
C6_Witness ==
    /\ state = "Done"
    /\ recon.phase = "done"
    /\ Len(completion) = 3
    /\ completion[1] > completion[2]
    /\ MarketIds(output.signals) = InputIds

\* C7: never more than max_concurrent_batches batches hold the semaphore,
\* and a queued batch is admitted only while a slot is free.
C7_ConcurrencyBounded ==
    /\ [](Cardinality({i \in BatchIds :
               bstate[i] \in {"calling", "backoff"}})
             <= config.max_concurrent_batches)
    /\ [][\A i \in DOMAIN bstate :
             (bstate[i] = "queued" /\ bstate'[i] = "calling") =>
                 Cardinality({k \in BatchIds :
                     bstate[k] \in {"calling", "backoff"}})
                   < config.max_concurrent_batches]_vars

\* Two batches in flight at a limit of two while a third waits.
C7_Witness ==
    /\ state = "Analyzing"
    /\ config.max_concurrent_batches = 2
    /\ InFlight = 2
    /\ \E i \in BatchIds : bstate[i] = "queued"

\* C8: when the deadline expires with batches outstanding the run is over
\* at once, without error, with one signal per input market in input order.
C8_DeadlineStillReturns ==
    recon.phase \in {"skipped", "cancelled"} =>
        /\ state = "Done"
        /\ outcome = "ok"
        /\ CoversMarkets(output.signals)
        /\ MarketIds(output.signals) = InputIds

\* The deadline cut a run short in which one batch had been analysed, one
\* was in flight and one was still queued.
C8_Witness ==
    /\ recon.phase = "skipped"
    /\ state = "Done"
    /\ {"analyzer", "cancelled"} \subseteq Sources
    /\ \E i \in BatchIds : results[i].source = "cancelled" /\ attempts[i] = 0
    /\ \E i \in BatchIds : results[i].source = "cancelled" /\ attempts[i] > 0
    /\ CoversMarkets(output.signals)

\* The input has no market, no key finding, a sentiment outside the enum,
\* or a price outside [0, 1].
InputInvalid ==
    \/ Len(input.markets) = 0
    \/ input.key_findings = 0
    \/ input.sentiment \notin
           {"very_bearish", "bearish", "neutral", "bullish", "very_bullish"}
    \/ \E j \in 1..Len(input.markets) :
          /\ input.markets[j].current_price # NoPrice
          /\ input.markets[j].current_price \notin 0..100

\* C9: a run fails exactly when its input is invalid; it is then rejected
\* with InvalidInput before any batch is formed or analyzer call made, and
\* no other failure ever reaches the caller.
C9_OnlyInvalidInputFails ==
    /\ outcome \in {"running", "ok", "InvalidInput"}
    /\ state = "Failed" <=> outcome = "InvalidInput"
    /\ state = "Done" <=> outcome = "ok"
    /\ state = "Failed" => InputInvalid
    /\ InputInvalid =>
           /\ state \in {"Received", "Failed"}
           /\ batches = <<>>
           /\ attempts = <<>>
           /\ recon.attempts = 0

\* C10: a slot filled by the fallback builder holds one signal per market
\* of its batch, in batch order, each hold / low, and filling it costs no
\* analyzer or reconciler call.
C10_FallbackShape ==
    /\ [](\A i \in BatchIds :
            results[i].source \in {"fallback", "cancelled"} =>
                /\ Len(results[i].signals) = Len(batches[i])
                /\ \A j \in 1..Len(batches[i]) :
                       /\ results[i].signals[j].market_id = batches[i][j].id
                       /\ results[i].signals[j].signal = "hold"
                       /\ results[i].signals[j].confidence = "low")
    /\ [][\A i \in DOMAIN results :
             (results[i].source = "none"
                 /\ results'[i].source \in {"fallback", "cancelled"}) =>
                 attempts' = attempts /\ recon'.attempts = recon.attempts]_vars

\* A two-market batch has been filled by the fallback builder.
C10_Witness ==
    \E i \in BatchIds :
        /\ results[i].source = "fallback"
        /\ Len(batches[i]) = 2
        /\ results[i].signals = build_fallback_batch(batches[i])

\* The pipeline's states in the order a run passes through them.
Rank(st) ==
    CASE st = "Received"    -> 0
      [] st = "Batching"    -> 1
      [] st = "Analyzing"   -> 2
      [] st = "Reconciling" -> 3
      [] st = "Done"        -> 4
      [] st = "Failed"      -> 4

AllSlotsFilled == \A i \in BatchIds : results[i].source # "none"

\* C11: the orchestrator only moves forward through Batching, Analyzing,
\* Reconciling, Done and never returns to a state it has left; no
\* reconciliation call is made before every batch slot holds a result,
\* and no output exists before Analyzing has ended.
C11_LinearStateMachine ==
    /\ [][state' # state =>
            /\ Rank(state') > Rank(state)
            /\ state = "Batching" => state' = "Analyzing"
            /\ state = "Analyzing" => state' \in {"Reconciling", "Done"}
            /\ state = "Reconciling" => state' = "Done"
            /\ state \notin {"Done", "Failed"}]_vars
    /\ []((state = "Reconciling" \/ recon.attempts > 0) =>
            (batches = split(input.markets, config.batch_size)
                /\ AllSlotsFilled))
    /\ [](output # NoOutput =>
            (state = "Done"
                /\ batches = split(input.markets, config.batch_size)
                /\ AllSlotsFilled))

\* A run of several batches that went through a reconciliation call to Done.
C11_Witness ==
    /\ state = "Done"
    /\ NumBatches >= 2
    /\ recon.phase = "done"
    /\ recon.attempts >= 1
    /\ AllSlotsFilled

\* C12: every output, healthy or degraded, carries the input's
\* main_event.title and the fixed disclaimer.
C12_TitleAndDisclaimer ==
    state = "Done" =>
        /\ output.event_title = input.title
        /\ output.disclaimer = "not financial advice"

\* A degraded output (the deadline cut the analysis short) of a two-market
\* event.
C12_Witness ==
    /\ state = "Done"
    /\ recon.phase = "skipped"
    /\ Len(input.markets) = 2
    /\ output.event_title = <<"event with markets", 2>>
    /\ output.disclaimer = DISCLAIMER

\* One hold / low signal per market of the batch, in batch order.
IsFallbackFor(sigs, batch) ==
    /\ Len(sigs) = Len(batch)
    /\ \A j \in 1..Len(batch) :
           sigs[j].market_id = batch[j].id /\ HoldLow(sigs[j])

\* C13: when the deadline expires during Analyzing, every batch that is
\* queued, in a call or waiting to retry is cancelled and its slot filled by
\* the fallback builder, the slots already filled are kept as they are, and
\* no reconciliation call is ever made in that run.
C13_DeadlineCancelsOutstanding ==
    /\ [][(state = "Analyzing" /\ state' = "Done") =>
            /\ \A i \in BatchIds :
                   IF bstate[i] = "done"
                   THEN results'[i] = results[i]
                   ELSE /\ results'[i].source = "cancelled"
                        /\ IsFallbackFor(results'[i].signals, batches[i])
            /\ \A i \in BatchIds : bstate'[i] = "done"
            /\ attempts' = attempts
            /\ recon'.phase = "skipped"
            /\ output'.signals =
                   Flatten([i \in BatchIds |-> results'[i].signals])]_vars
    /\ [](recon.phase = "skipped" => (recon.attempts = 0 /\ state = "Done"))
    /\ [][recon.phase = "skipped" => recon' = recon]_vars

\* The deadline struck with one batch fallen back after its retries, one
\* in a call and one still queued.
C13_Witness ==
    /\ state = "Done"
    /\ recon.phase = "skipped"
    /\ recon.attempts = 0
    /\ NumBatches = 3
    /\ results[1].source = "fallback"
    /\ results[2].source = "cancelled" /\ attempts[2] >= 1
    /\ results[3].source = "cancelled" /\ attempts[3] = 0

\* The reconciliation call has sent back a signal list that omits, repeats,
\* adds or reorders market ids.
NonConformingAnswer ==
    recon.answered /\ MarketIds(recon.answer) # InputIds

\* C14: when the reconciliation call sends back a signal list that omits,
\* repeats, adds or reorders market ids, the run treats the reconciliation
\* as failed and returns the batch signals unchanged, so the output has
\* exactly one signal per input market, in input order.
C14_NonConformingAnswerRejected ==
    (state = "Done" /\ NonConformingAnswer) =>
        /\ recon.phase = "fallback"
        /\ output.signals = BatchSignalsInOrder
        /\ MarketIds(output.signals) = InputIds
        /\ CoversMarkets(output.signals)

\* Three markets: the reconciler sent back a list with other ids than the
\* input's, and the batch signals came back unchanged.
C14_Witness ==
    /\ state = "Done"
    /\ NonConformingAnswer
    /\ recon.phase = "fallback"
    /\ Len(input.markets) = 3
    /\ Len(recon.answer) # 3
    /\ output.signals = BatchSignalsInOrder
    /\ MarketIds(output.signals) = InputIds

BatchMarketIds(i) == [j \in 1..Len(batches[i]) |-> batches[i][j].id]

\* C15: a result slot is written once per run, with the signals of its own
\* batch, by that batch's analysis or by the fallback builder; a slot that
\* holds a result is never written again, also when the deadline cancels
\* the batch in the very state in which its call could have returned.
C15_SlotWrittenOnce ==
    /\ [][\A i \in DOMAIN results :
            /\ results[i].source # "none" => results'[i] = results[i]
            /\ results'[i] # results[i] =>
                   /\ results'[i].source \in {"analyzer", "fallback", "cancelled"}
                   /\ MarketIds(results'[i].signals) = BatchMarketIds(i)
                   /\ bstate[i] # "done" /\ bstate'[i] = "done"]_vars
    /\ [](\A i \in BatchIds :
            /\ results[i].source \in {"none", "analyzer", "fallback", "cancelled"}
            /\ bstate[i] = "done" <=> results[i].source # "none")

\* The deadline cancelled batch 1 during its first call, a state in which
\* that call could also have returned; batch 2 had already been analysed.
C15_Witness ==
    /\ state = "Done"
    /\ NumBatches = 2
    /\ results[1].source = "cancelled"
    /\ attempts[1] = 1
    /\ results[2].source = "analyzer"
    /\ completion = <<2>>

\* The part of the reconciler's input that belongs to batch i.
ReconInputOf(i) ==
    SubSeq(recon.signals, (i - 1) * config.batch_size + 1,
           (i - 1) * config.batch_size + Len(batches[i]))

\* C16: a batch that fails on every attempt degrades only its own signals:
\* the step that puts it on the fallback leaves every other slot and the
\* run's state alone, the reconciler is handed every other batch's signals
\* exactly as its analyzer returned them, and the run can go on to the
\* reconciliation step.
C16_FallbackIsLocal ==
    /\ [][\A f \in DOMAIN results :
            (results[f].source = "none" /\ results'[f].source = "fallback") =>
                /\ \A j \in DOMAIN results \ {f} :
                       results'[j] = results[j] /\ bstate'[j] = bstate[j]
                /\ state' = state
                /\ outcome' = outcome]_vars
    /\ []((recon.phase \notin {"idle", "skipped"}
              /\ \E f \in BatchIds : results[f].source = "fallback") =>
            \A j \in BatchIds :
                /\ ReconInputOf(j) = results[j].signals
                /\ results[j].source = "analyzer" =>
                       \E k \in Judgments :
                           ReconInputOf(j) = analyze_batch(batches[j], k))
    /\ []((state = "Analyzing" /\ \A i \in BatchIds : bstate[i] = "done") =>
            ENABLED StartReconcile)

\* Batch 1 fell back, batch 2 was analysed, and the reconciler was called.
C16_Witness ==
    /\ NumBatches = 2
    /\ results[1].source = "fallback"
    /\ results[2].source = "analyzer"
    /\ recon.attempts >= 1
    /\ ReconInputOf(2) = results[2].signals
    /\ ReconInputOf(1) = build_fallback_batch(batches[1])

TextResponse(t) == [kind |-> "text", text |-> t]

\* C17: every invocation of analyze_batch is one outbound call (the attempt
\* count of a batch goes up by one exactly when a call starts); a timeout, a
\* transport failure and every malformed text all come back as the one
\* AnalysisFailed with no signals; a fenced well-formed response gives the
\* BatchResult of the same response unfenced; a slot filled by the analyzer
\* holds the result of a well-formed response.
C17_OneCallOneFailureKind ==
    /\ [][\A i \in DOMAIN bstate :
            /\ attempts'[i] \in {attempts[i], attempts[i] + 1}
            /\ attempts'[i] = attempts[i] + 1 <=>
                   (bstate[i] # "calling" /\ bstate'[i] = "calling")]_vars
    /\ [](\A i \in BatchIds :
            /\ \A resp \in Responses :
                   (resp.kind # "text" \/ resp.text \in MalformedTexts) =>
                       analyze_batch_response(batches[i], resp) = AnalysisFailed
            /\ \A k \in Judgments :
                   /\ analyze_batch_response(batches[i],
                                             TextResponse(ResponseText(k, TRUE)))
                        = analyze_batch_response(batches[i],
                                             TextResponse(ResponseText(k, FALSE)))
                   /\ analyze_batch_response(batches[i],
                                             TextResponse(ResponseText(k, TRUE)))
                        = BatchResult(analyze_batch(batches[i], k))
            /\ results[i].source = "analyzer" =>
                   \E t \in WellFormedTexts :
                       analyze_batch_response(batches[i], TextResponse(t))
                           = BatchResult(results[i].signals))

\* A batch whose first call failed and whose second call brought a fenced
\* well-formed response.
C17_Witness ==
    \E i \in BatchIds :
        /\ attempts[i] = 2
        /\ results[i].source = "analyzer"
        /\ Len(batches[i]) = 2
        /\ BatchResult(results[i].signals)
               = analyze_batch_response(batches[i],
                                        TextResponse(ResponseText(1, TRUE)))

SchemaValid(sig) ==
    sig.signal \in TradingSignal /\ sig.confidence \in ConfidenceLevel

\* The signal an analyzer slot must hold for a market given the raw judgment.
SafelyParsed(sig, raw) ==
    /\ sig.signal = (IF raw[1] \in {"buy", "sell", "hold"} THEN raw[1] ELSE "hold")
    /\ sig.confidence =
           (IF raw[2] \in {"high", "medium", "low"} THEN raw[2] ELSE "low")

\* C18: an unknown signal value is parsed as hold and an unknown confidence
\* value as low, known values are kept, in the analyzer's slots and in the
\* reconciler's answer alike; every signal held in a slot, handed to the
\* reconciler or returned is buy / sell / hold with high / medium / low.
C18_SafeEnumParsing ==
    /\ parse_signal("strong_buy") = "hold" /\ parse_confidence("certain") = "low"
    /\ \A i \in BatchIds :
           /\ \A j \in 1..Len(results[i].signals) :
                  SchemaValid(results[i].signals[j])
           /\ results[i].source = "analyzer" =>
                  \E k \in Judgments : \A j \in 1..Len(batches[i]) :
                      SafelyParsed(results[i].signals[j],
                                   RawJudgment(k, batches[i][j].id))
    /\ \A j \in 1..Len(recon.signals) : SchemaValid(recon.signals[j])
    /\ \A j \in 1..Len(output.signals) : SchemaValid(output.signals[j])
    /\ (recon.phase = "done" /\ Len(recon.signals) > 0) =>
           \E kind \in ReconAnswers :
               /\ Len(ReconAnswer(kind, recon.signals)) = Len(output.signals)
               /\ \A j \in 1..Len(output.signals) :
                      LET raw == ReconAnswer(kind, recon.signals)[j]
                      IN  SafelyParsed(output.signals[j],
                                       <<raw.signal, raw.confidence>>)

\* A returned run in which the analyzer was answered "strong_buy" /
\* "certain" for a market and the reconciler "strong_sell" / "certain" for
\* another: both came out as hold / low.
C18_Witness ==
    /\ state = "Done"
    /\ recon.phase = "done"
    /\ Len(output.signals) >= 2
    /\ output.signals = parse_signals(UnknownEnums(recon.signals))
    /\ output.signals[1].rationale = "adjusted" /\ HoldLow(output.signals[1])
    /\ recon.signals[1].signal # "hold"
    /\ \E i \in BatchIds : \E j \in 1..Len(batches[i]) : \E k \in Judgments :
           /\ results[i].source = "analyzer"
           /\ results[i].signals = analyze_batch(batches[i], k)
           /\ RawJudgment(k, batches[i][j].id) = <<"strong_buy", "certain">>
           /\ HoldLow(results[i].signals[j])
           /\ \E m \in 2..Len(output.signals) :
                  output.signals[m] = results[i].signals[j]

\* C20: the output is assembled once, as the run reaches Done, with one
\* signal per market; from then on neither the state nor any part of the
\* output changes, whatever answer of a cancelled analyzer or reconciler
\* call still arrives.
C20_OutputImmutableAfterDone ==
    /\ [][state = "Done" => (state' = "Done" /\ output' = output)]_vars
    /\ [][output' # output => (output = NoOutput /\ state # "Done"
                                 /\ state' = "Done")]_vars
    /\ [](state = "Done" =>
            /\ MarketIds(output.signals) = InputIds
            /\ \A m \in Range(InputIds) :
                   Occurrences(output.signals, m) = 1)
    /\ [](state # "Done" => output = NoOutput)

\* A returned run whose deadline cut an analyzer call and whose answer has
\* since arrived; the output still holds the fallback for that batch.
C20_Witness ==
    /\ state = "Done"
    /\ config.max_retries = 0
    /\ late = {}
    /\ \E i \in BatchIds :
           /\ results[i].source = "cancelled"
           /\ attempts[i] = 1
           /\ \A j \in 1..Len(batches[i]) :
                  output.signals[(i - 1) * config.batch_size + j]
                      = build_fallback_batch(batches[i])[j]

\* The per-call timeout summed across a batch's attempts.
TimeoutBudget == (1 + config.max_retries) * config.per_batch_timeout

\* The time batch i has spent inside analyzer calls, the running one included.
InCallTime(i) == clock.spent[i] + clock.call[i]

\* C19: no analyzer call lasts longer than per_batch_timeout and no batch
\* makes more than 1 + max_retries calls, so the time a batch spends in its
\* calls, summed across the attempts, never exceeds (1 + max_retries) x
\* per_batch_timeout (the waits between attempts are not calls); the run
\* never lasts longer than total_timeout; when that budget exceeds
\* total_timeout, as with the defaults, a batch with no result at the
\* deadline is given the fallback signals and the output carries them; when
\* the budget and the waits fit under total_timeout and no batch has to
\* queue, no batch is cut short.
C19_RetryBudgetAndDeadline ==
    /\ clock.now <= config.total_timeout
    /\ \A i \in BatchIds :
           /\ clock.call[i] <= config.per_batch_timeout
           /\ attempts[i] <= 1 + config.max_retries
           /\ InCallTime(i) <= attempts[i] * config.per_batch_timeout
           /\ InCallTime(i) <= TimeoutBudget
           /\ InCallTime(i) <= clock.now
    /\ (state = "Done" /\ TimeoutBudget > config.total_timeout) =>
           /\ clock.now = config.total_timeout
           /\ outcome = "ok"
           /\ \A i \in BatchIds :
                  /\ results[i].source \in {"analyzer", "fallback", "cancelled"}
                  /\ results[i].source # "analyzer" =>
                         /\ results[i].signals = build_fallback_batch(batches[i])
                         /\ \A j \in 1..Len(batches[i]) :
                                output.signals[(i - 1) * config.batch_size + j]
                                    = build_fallback_batch(batches[i])[j]
    /\ (/\ TimeoutBudget + config.max_retries * config.retry_delay
               < config.total_timeout
        /\ NumBatches <= config.max_concurrent_batches) =>
               /\ state # "Done"
               /\ \A i \in BatchIds : results[i].source # "cancelled"

\* The defaults: the first call timed out at 45, the second started after
\* the retry delay and was 44 into its time when the deadline expired at 90;
\* the batch got the fallback signals.
C19_Witness ==
    /\ state = "Done"
    /\ config.total_timeout = 90 /\ config.per_batch_timeout = 45
    /\ config.max_retries = 2
    /\ clock.now = 90
    /\ attempts[1] = 2
    /\ clock.spent[1] = 45 /\ clock.call[1] = 44
    /\ results[1].source = "cancelled"
    /\ output.signals = build_fallback_batch(batches[1])

(***************************************************************************)
(* The event-explorer widget: EventExplorer and the Analyze button of its  *)
(* EventCards.                                                             *)
(***************************************************************************)
MaxResults == 3

MaxClicks == 2

\* Search results as the tool hands them over: ids need not be distinct.
ResultPool ==
    { [id |-> "m1", question |-> "q1"],
      [id |-> "m1", question |-> "q2"],
      [id |-> "m2", question |-> "q1"] }

SeqsUpTo(S, n) == UNION {[1..k -> S] : k \in 0..n}

\* Mutant: the copy starts at the first element whatever start is.
slice_whole(s, start) == s

\* Array.prototype.slice(start), start counted from 0.
slice(s, start) == SubSeq(s, start + 1, Len(s))

\* What EventExplorer renders: the skeleton while pending; else the main
\* card for results[0] and, under the More Results heading, a card for each
\* of the other results; else the no-markets message.
EventExplorer(isPending, props) ==
    IF isPending
    THEN [screen |-> "skeleton", main |-> <<>>, heading |-> FALSE, others |-> <<>>]
    ELSE LET mainResult == IF Len(props) >= 1 THEN <<props[1]>> ELSE <<>>
             otherResults == slice(props, 1)
         IN  IF mainResult # <<>>
             THEN [screen |-> "results", main |-> mainResult,
                   heading |-> Len(otherResults) > 0, others |-> otherResults]
             ELSE [screen |-> "no-markets", main |-> <<>>, heading |-> FALSE,
                   others |-> <<>>]

\* The cards on screen, each with its Analyze button, in document order.
Cards(view) == view.main \o view.others

\* handleAnalyze: the tool call that callTool sends.
handleAnalyze(marketId, question) ==
    [tool |-> "analyze-event", eventId |-> marketId]

WidgetInit ==
    /\ input = [title |-> EventTitle(0), key_findings |-> 1,
                sentiment |-> "neutral", markets |-> <<>>]
    /\ config = RiskAgentConfig(1, 1, 0, TotalTimeout)
    /\ state = "Received"
    /\ batches = <<>>
    /\ bstate = <<>>
    /\ attempts = <<>>
    /\ results = <<>>
    /\ completion = <<>>
    /\ recon = IdleRecon
    /\ output = NoOutput
    /\ outcome = "running"
    /\ late = {}
    /\ clock = NoClock
    /\ widget = [NoWidget EXCEPT !.view = EventExplorer(TRUE, <<>>)]
    /\ parse = NoParse

\* The search tool's result arrives: isPending turns false, props are set.
PropsLoaded ==
    /\ widget.isPending
    /\ \E props \in SeqsUpTo(ResultPool, MaxResults) :
          widget' = [widget EXCEPT !.isPending = FALSE, !.results = props,
                                   !.view = EventExplorer(FALSE, props)]
    /\ UNCHANGED <<agentVars, parse>>

\* The user clicks the Analyze button of the c-th card on screen.
ClickAnalyze(c) ==
    /\ Len(widget.clicks) < MaxClicks
    /\ c \in 1..Len(Cards(widget.view))
    /\ LET market == Cards(widget.view)[c]
       IN  widget' = [widget EXCEPT
               !.clicks = Append(@, c),
               !.calls = Append(@, handleAnalyze(market.id, market.question))]
    /\ UNCHANGED <<agentVars, parse>>

WidgetNext ==
    \/ PropsLoaded
    \/ \E c \in 1..(MaxResults + 1) : ClickAnalyze(c)

WidgetSpec == WidgetInit /\ [][WidgetNext]_vars

\* C21: while isPending the widget shows the skeleton only, has no card to
\* click and has issued no tool call; once loaded the main card is
\* results[0] and the cards under More Results are the remaining results,
\* each once and in order, with the heading shown exactly when there are
\* some, or the no-markets message when results is empty; every click adds
\* exactly one analyze-event call carrying the id of the clicked card's
\* market, and nothing else adds a call.
C21_WidgetRendersAndCalls ==
    /\ [](widget.isPending =>
            /\ widget.view.screen = "skeleton"
            /\ Cards(widget.view) = <<>>
            /\ widget.calls = <<>>
            /\ \A c \in 1..(MaxResults + 1) : ~ENABLED ClickAnalyze(c))
    /\ [](~widget.isPending =>
            /\ widget.view.screen # "skeleton"
            /\ widget.results = <<>> <=> widget.view.screen = "no-markets"
            /\ widget.view.screen = "no-markets" => Cards(widget.view) = <<>>
            /\ widget.results # <<>> =>
                   /\ widget.view.main = <<widget.results[1]>>
                   /\ Len(widget.view.others) = Len(widget.results) - 1
                   /\ \A j \in 1..Len(widget.view.others) :
                          widget.view.others[j] = widget.results[j + 1]
                   /\ widget.view.heading <=> Len(widget.results) > 1)
    /\ [](/\ Len(widget.calls) = Len(widget.clicks)
          /\ \A k \in 1..Len(widget.calls) :
                 /\ widget.calls[k].tool = "analyze-event"
                 /\ widget.calls[k].eventId = widget.results[widget.clicks[k]].id)
    /\ [][widget'.calls # widget.calls =>
            /\ Len(widget'.clicks) = Len(widget.clicks) + 1
            /\ Len(widget'.calls) = Len(widget.calls) + 1
            /\ SubSeq(widget'.calls, 1, Len(widget.calls)) = widget.calls]_vars

\* Three results, two of them with the same id: the last card was clicked,
\* then the main card.
C21_Witness ==
    /\ ~widget.isPending
    /\ Len(widget.results) = 3
    /\ widget.results[2].id = widget.results[3].id
    /\ widget.results[2] # widget.results[3]
    /\ widget.results[1].id # widget.results[3].id
    /\ widget.clicks = <<3, 1>>
    /\ widget.calls = << handleAnalyze(widget.results[3].id, ""),
                         handleAnalyze(widget.results[1].id, "") >>
    /\ widget.view.heading

(***************************************************************************)
(* EventCard's parseOutcomes. A string is the sequence of its characters;  *)
(* a number is NaN or mantissa / 10^exponent with no trailing zero.        *)
(***************************************************************************)
MaxOutcomesLen == 4

MaxPricesLen == 4

\* A field that is null or undefined.
Null == <<"null">>

OutcomeChars == {"a", ",", " "}

PriceChars == {"5", ".", ",", " "}

OptionalString(chars, n) == SeqsUpTo(chars, n) \cup {Null}

NaN == [nan |-> TRUE, m |-> 0, e |-> 0]

RECURSIVE Num(_, _)
Num(m, e) ==
    IF e > 0 /\ m % 10 = 0 THEN Num(m \div 10, e - 1)
    ELSE [nan |-> FALSE, m |-> m, e |-> e]

Zero == Num(0, 0)

\* !s of a string or null: null, undefined and "" are falsy.
Falsy(s) == s = Null \/ s = <<>>

\* String.prototype.split(","): the pieces between the commas.
RECURSIVE split_comma(_)
split_comma(s) ==
    IF \A i \in 1..Len(s) : s[i] # ","
    THEN <<s>>
    ELSE LET c == CHOOSE i \in 1..Len(s) :
                      s[i] = "," /\ \A j \in 1..(i - 1) : s[j] # ","
         IN  <<SubSeq(s, 1, c - 1)>> \o split_comma(SubSeq(s, c + 1, Len(s)))

\* String.prototype.trim: white space off both ends.
RECURSIVE trim(_)
trim(s) ==
    IF s = <<>> THEN s
    ELSE IF Head(s) = " " THEN trim(Tail(s))
    ELSE IF s[Len(s)] = " " THEN trim(SubSeq(s, 1, Len(s) - 1))
    ELSE s

Digit(c) == IF c = "5" THEN 5 ELSE 0

IsDigit(c) == c \in {"5"}

\* The length of the longest run of digits s starts with.
RECURSIVE DigitRun(_)
DigitRun(s) ==
    IF s # <<>> /\ IsDigit(Head(s)) THEN 1 + DigitRun(Tail(s)) ELSE 0

\* The value of a run of digits, read after the digits of acc.
RECURSIVE DigitsValue(_, _)
DigitsValue(s, acc) ==
    IF s = <<>> THEN acc ELSE DigitsValue(Tail(s), acc * 10 + Digit(Head(s)))

\* parseFloat on text without sign or exponent: leading white space is
\* skipped, then the longest prefix digits [. digits] with a digit in it is
\* read; NaN when there is none.
RECURSIVE parseFloat(_)
parseFloat(s) ==
    IF s # <<>> /\ Head(s) = " " THEN parseFloat(Tail(s))
    ELSE LET n == DigitRun(s)
             rest == SubSeq(s, n + 1, Len(s))
             f == IF rest # <<>> /\ Head(rest) = "." THEN DigitRun(Tail(rest))
                  ELSE 0
         IN  IF n + f = 0 THEN NaN
             ELSE Num(DigitsValue(SubSeq(rest, 2, f + 1),
                                  DigitsValue(SubSeq(s, 1, n), 0)), f)

\* Mutant: names and prices are zipped, so a name without a price is dropped.
parseOutcomesZipped(outcomes, prices) ==
    IF Falsy(outcomes) \/ Falsy(prices) THEN <<>>
    ELSE LET names == [i \in DOMAIN split_comma(outcomes) |->
                          trim(split_comma(outcomes)[i])]
             priceVals == [i \in DOMAIN split_comma(prices) |->
                              parseFloat(trim(split_comma(prices)[i]))]
         IN  [i \in 1..Min(Len(names), Len(priceVals)) |->
                 [name |-> names[i], price |-> priceVals[i]]]

parseOutcomes(outcomes, prices) ==
    IF Falsy(outcomes) \/ Falsy(prices) THEN <<>>
    ELSE LET names == [i \in DOMAIN split_comma(outcomes) |->
                          trim(split_comma(outcomes)[i])]
             priceVals == [i \in DOMAIN split_comma(prices) |->
                              parseFloat(trim(split_comma(prices)[i]))]
         IN  [i \in 1..Len(names) |->
                 [name |-> names[i],
                  price |-> IF i <= Len(priceVals) THEN priceVals[i] ELSE Zero]]

ParseInit ==
    /\ input = [title |-> EventTitle(0), key_findings |-> 1,
                sentiment |-> "neutral", markets |-> <<>>]
    /\ config = RiskAgentConfig(1, 1, 0, TotalTimeout)
    /\ state = "Received"
    /\ batches = <<>>
    /\ bstate = <<>>
    /\ attempts = <<>>
    /\ results = <<>>
    /\ completion = <<>>
    /\ recon = IdleRecon
    /\ output = NoOutput
    /\ outcome = "running"
    /\ late = {}
    /\ clock = NoClock
    /\ widget = NoWidget
    /\ \E o \in OptionalString(OutcomeChars, MaxOutcomesLen),
          p \in OptionalString(PriceChars, MaxPricesLen) :
          parse = [NoParse EXCEPT !.outcomes = o, !.prices = p]

\* EventCard renders: parseOutcomes(market.outcomes, market.outcomePrices).
RenderCard ==
    /\ ~parse.called
    /\ parse' = [parse EXCEPT
           !.called = TRUE,
           !.parsed = parseOutcomes(parse.outcomes, parse.prices)]
    /\ UNCHANGED <<agentVars, widget>>

ParseNext == RenderCard

ParseSpec == ParseInit /\ [][ParseNext]_vars

\* Where the commas of s are.
CommaAt(s) == {i \in 1..Len(s) : s[i] = ","}

NumPieces(s) == Cardinality(CommaAt(s)) + 1

NthComma(s, k) ==
    CHOOSE c \in CommaAt(s) : Cardinality({d \in CommaAt(s) : d <= c}) = k

\* The i-th of the comma-separated pieces of s, as the text between two
\* commas (or an end of s).
Piece(s, i) ==
    SubSeq(s, IF i = 1 THEN 1 ELSE NthComma(s, i - 1) + 1,
              IF i = NumPieces(s) THEN Len(s) ELSE NthComma(s, i) - 1)

Spaces(n) == [j \in 1..n |-> " "]

\* name is piece without the white space at its ends.
IsTrimOf(name, piece) ==
    /\ name = <<>> \/ (name[1] # " " /\ name[Len(name)] # " ")
    /\ \E a, b \in 0..Len(piece) : piece = Spaces(a) \o name \o Spaces(b)

\* C22: parseOutcomes gives the empty list when outcomes or prices is
\* null, undefined or ""; otherwise one entry per comma-separated piece of
\* outcomes, in order, whose name is the piece trimmed and whose price is
\* the number parseFloat reads from the piece of prices at the same place
\* (NaN when it reads none), or 0 when prices has no piece at that place;
\* pieces of prices beyond the last name add nothing.
C22_ParseOutcomesPairsByPosition ==
    parse.called =>
        IF parse.outcomes \in {Null, <<>>} \/ parse.prices \in {Null, <<>>}
        THEN parse.parsed = <<>>
        ELSE /\ Len(parse.parsed) = NumPieces(parse.outcomes)
             /\ \A i \in 1..Len(parse.parsed) :
                    /\ IsTrimOf(parse.parsed[i].name, Piece(parse.outcomes, i))
                    /\ parse.parsed[i].price =
                           IF i <= NumPieces(parse.prices)
                           THEN parseFloat(Piece(parse.prices, i))
                           ELSE Zero

\* Outcomes "a, a" with prices ".5": two entries, a at 0.5 and a at 0.
C22_Witness ==
    /\ parse.called
    /\ parse.outcomes = <<"a", ",", " ", "a">>
    /\ parse.prices = <<".", "5">>
    /\ parse.parsed = << [name |-> <<"a">>, price |-> [nan |-> FALSE, m |-> 5, e |-> 1]],
                         [name |-> <<"a">>, price |-> [nan |-> FALSE, m |-> 0, e |-> 0]] >>
====
